---- MODULE Spec2Model ----
(***************************************************************************)
(* A model of the example HTTP client (examples/integration-utils-http.py),*)
(* the example LLM client (examples/llm-wrappers-basic.py) and the backoff *)
(* computation of test_http_client.py.                                     *)
(*                                                                         *)
(* Python values are represented as follows.                               *)
(*   str            a sequence of one-character strings ("" is << >>);     *)
(*                  opaque tokens (API keys, dictionary keys and values)   *)
(*                  are TLA+ strings, "" being Python's empty string       *)
(*   Optional[T]    a sequence of length 0 (None, or an omitted argument)  *)
(*                  or 1 (<<x>>)                                           *)
(*   dict           a set of <<key, value>> pairs                          *)
(*   float          the whole-valued floats, as integers: within the       *)
(*                  model's ranges float arithmetic on them is exact       *)
(***************************************************************************)
EXTENDS Integers, Sequences, FiniteSets, TLC

VARIABLES
    client,         \* the HttpClient in use: << >> before any construction
    ctor,           \* the arguments `client` was constructed from
    last,           \* the last request `client` made: its printed url and response
    client2,        \* a second HttpClient, for comparing two clients
    last2,          \* the last request `client2` made
    env,            \* os.environ, restricted to the variables of EnvVars
    llm,            \* the last LLMClient construction: arguments, outcome, client
    completion,     \* the last complete() call on llm's client
    prevCompletion, \* the complete() call before it
    backoff         \* the backoff computation: parameters, attempt, delay

vars == <<client, ctor, last, client2, last2, env, llm, completion,
          prevCompletion, backoff>>

----------------------------------------------------------------------------
(* Python values *)

None == << >>
Some(x) == <<x>>

\* A parameter's value: the argument, or the default when it is omitted.
ArgOr(arg, default) == IF arg = None THEN default ELSE arg[1]

Repeat(c, n) == [i \in 1..n |-> c]

\* s[:n]
Take(s, n) == SubSeq(s, 1, IF Len(s) < n THEN Len(s) ELSE n)

\* True when `sub` occurs in `s` starting at position i.
OccursAt(sub, s, i) ==
    /\ i >= 1
    /\ i + Len(sub) - 1 <= Len(s)
    /\ SubSeq(s, i, i + Len(sub) - 1) = sub

----------------------------------------------------------------------------
(* Bounds and input domains *)

MaxTrailingSlashes == 2

Slash == "/"

BaseUrl ==
    <<"h","t","t","p","s",":","/","/","a","p","i",".",
      "e","x","a","m","p","l","e",".","c","o","m">>

BaseUrlArgs == { BaseUrl \o Repeat(Slash, k) : k \in 0..MaxTrailingSlashes }

UsersEndpoint == <<"/","u","s","e","r","s">>
HealthEndpoint == <<"/","h","e","a","l","t","h">>
Endpoints == { UsersEndpoint, HealthEndpoint }

DefaultTimeout == 30
TimeoutArgs == { None, Some(5) }

JsonHeaders == { <<"Content-Type", "application/json">> }
HeadersArgs == { None, Some({}), Some(JsonHeaders) }

\* params / json_data: None, or a JSON-serialisable dictionary (on these
\* json.dumps returns, so post's print of the payload completes).
Payloads == { None, Some({ <<"name", "John Doe">> }) }

DefaultMaxRetries == 3
DefaultBackoffFactor == 2
MaxRetriesArgs == { None, Some(5), Some(0) }
BackoffFactorArgs == { None, Some(1), Some(0) }

----------------------------------------------------------------------------
(* examples/integration-utils-http.py *)

\* RetryConfig.__init__: stores what it is given, validates nothing.
RetryConfig_default5(max_retries, backoff_factor) ==
    [ max_retries    |-> ArgOr(max_retries, 5),
      backoff_factor |-> ArgOr(backoff_factor, DefaultBackoffFactor) ]

RetryConfig(max_retries, backoff_factor) ==
    [ max_retries    |-> ArgOr(max_retries, DefaultMaxRetries),
      backoff_factor |-> ArgOr(backoff_factor, DefaultBackoffFactor) ]

\* The retry_config arguments a caller can pass: None, or a RetryConfig
\* built from its own (possibly omitted) arguments.
RetryArgs == { <<m, f>> : m \in MaxRetriesArgs, f \in BackoffFactorArgs }
RetryConfigArg(r) == IF r = None THEN None ELSE Some(RetryConfig(r[1][1], r[1][2]))

\* str.rstrip(c)
RECURSIVE rstrip(_, _)
rstrip(s, c) ==
    IF s # << >> /\ s[Len(s)] = c
    THEN rstrip(SubSeq(s, 1, Len(s) - 1), c)
    ELSE s

\* `headers or {}`: None and the empty dictionary are falsy.
HeadersOrEmpty(headers) ==
    IF headers = None \/ headers[1] = {} THEN {} ELSE headers[1]

\* `retry_config or RetryConfig()`: a RetryConfig object is always truthy.
RetryConfigOrDefault(retry_config) ==
    IF retry_config = None THEN RetryConfig(None, None) ELSE retry_config[1]

HttpClient_keepSlash(base_url, timeout, headers, retry_config) ==
    [ base_url     |-> base_url,
      timeout      |-> ArgOr(timeout, DefaultTimeout),
      headers      |-> HeadersOrEmpty(headers),
      retry_config |-> RetryConfigOrDefault(retry_config) ]

\* HttpClient.__init__
HttpClient(base_url, timeout, headers, retry_config) ==
    [ base_url     |-> rstrip(base_url, Slash),
      timeout      |-> ArgOr(timeout, DefaultTimeout),
      headers      |-> HeadersOrEmpty(headers),
      retry_config |-> RetryConfigOrDefault(retry_config) ]

\* f"{self.base_url}{endpoint}"
Url(self, endpoint) == self.base_url \o endpoint

StatusOk == 200
StatusCreated == 201
StatusNoContent == 204

\* Each request method yields the url it prints and the response it returns.
\* params / json_data do not occur in the url or the response.
get_leakTimeout(self, endpoint, params) ==
    [ url      |-> Url(self, endpoint),
      response |-> [ status_code |-> StatusOk,
                     data |-> [ message  |-> "GET request successful",
                                endpoint |-> endpoint,
                                timeout  |-> self.timeout ] ] ]

get(self, endpoint, params) ==
    [ url      |-> Url(self, endpoint),
      response |-> [ status_code |-> StatusOk,
                     data |-> [ message  |-> "GET request successful",
                                endpoint |-> endpoint ] ] ]

post_status200(self, endpoint, json_data) ==
    [ url      |-> Url(self, endpoint),
      response |-> [ status_code |-> StatusOk,
                     data |-> [ message |-> "POST request successful",
                                created |-> TRUE ] ] ]

post(self, endpoint, json_data) ==
    [ url      |-> Url(self, endpoint),
      response |-> [ status_code |-> StatusCreated,
                     data |-> [ message |-> "POST request successful",
                                created |-> TRUE ] ] ]

put(self, endpoint, json_data) ==
    [ url      |-> Url(self, endpoint),
      response |-> [ status_code |-> StatusOk,
                     data |-> [ message |-> "PUT request successful",
                                updated |-> TRUE ] ] ]

delete(self, endpoint) ==
    [ url      |-> Url(self, endpoint),
      response |-> [ status_code |-> StatusNoContent,
                     data |-> [ message |-> "DELETE request successful" ] ] ]

\* What a request leaves behind: the call, the printed url, the response,
\* and the attempts it took. Each method body is straight-line code (build
\* the url, print, return the literal): it has no loop and no failure path
\* and never reads self.retry_config, so a call is the single attempt 0.
Call(method, endpoint, payload, result) ==
    [ method   |-> method,
      endpoint |-> endpoint,
      payload  |-> payload,
      url      |-> result.url,
      response |-> result.response,
      attempts |-> <<0>> ]

\* client = HttpClient(base_url, timeout, headers, retry_config)
NewHttpClient ==
    \E b \in BaseUrlArgs, t \in TimeoutArgs, h \in HeadersArgs,
       r \in { None } \cup { Some(x) : x \in RetryArgs } :
        /\ client' = Some(HttpClient(b, t, h, RetryConfigArg(r)))
        /\ ctor' = Some([ base_url |-> b, timeout |-> t, headers |-> h, retry |-> r ])
        /\ last' = None
        /\ UNCHANGED <<client2, last2, env, llm, completion, prevCompletion, backoff>>

CallGet_appendsToBase ==
    /\ client # None
    /\ \E e \in Endpoints, p \in Payloads :
        /\ last' = Some(Call("GET", e, p, get(client[1], e, p)))
        /\ client' = Some([ client[1] EXCEPT !.base_url = Url(client[1], e) ])
    /\ UNCHANGED <<ctor, client2, last2, env, llm, completion,
                   prevCompletion, backoff>>

\* response = client.get(endpoint, params)
CallGet ==
    /\ client # None
    /\ \E e \in Endpoints, p \in Payloads :
        last' = Some(Call("GET", e, p, get(client[1], e, p)))
    /\ UNCHANGED <<client, ctor, client2, last2, env, llm, completion,
                   prevCompletion, backoff>>

\* response = client.post(endpoint, json_data)
CallPost ==
    /\ client # None
    /\ \E e \in Endpoints, p \in Payloads :
        last' = Some(Call("POST", e, p, post(client[1], e, p)))
    /\ UNCHANGED <<client, ctor, client2, last2, env, llm, completion,
                   prevCompletion, backoff>>

\* response = client.put(endpoint, json_data)
CallPut ==
    /\ client # None
    /\ \E e \in Endpoints, p \in Payloads :
        last' = Some(Call("PUT", e, p, put(client[1], e, p)))
    /\ UNCHANGED <<client, ctor, client2, last2, env, llm, completion,
                   prevCompletion, backoff>>

\* response = client.delete(endpoint)
CallDelete ==
    /\ client # None
    /\ \E e \in Endpoints :
        last' = Some(Call("DELETE", e, None, delete(client[1], e)))
    /\ UNCHANGED <<client, ctor, client2, last2, env, llm, completion,
                   prevCompletion, backoff>>

InitHttp ==
    /\ client = None
    /\ ctor = None
    /\ last = None
    /\ client2 = None
    /\ last2 = None
    /\ env = None
    /\ llm = None
    /\ completion = None
    /\ prevCompletion = None
    /\ backoff = None

NextHttp ==
    \/ NewHttpClient
    \/ CallGet
    \/ CallPost
    \/ CallPut
    \/ CallDelete

SpecHttp == InitHttp /\ [][NextHttp]_vars

----------------------------------------------------------------------------
(* Two clients side by side: the same requests on differently configured   *)
(* clients of one base url.                                                *)

ClientConfigs ==
    { [ timeout |-> t, headers |-> h, retry |-> r ] :
        t \in TimeoutArgs, h \in { None, Some(JsonHeaders) },
        r \in { None } \cup { Some(x) : x \in RetryArgs } }

InitPair ==
    /\ \E b \in BaseUrlArgs, c1 \in ClientConfigs, c2 \in ClientConfigs :
        /\ client = Some(HttpClient(b, c1.timeout, c1.headers, RetryConfigArg(c1.retry)))
        /\ client2 = Some(HttpClient(b, c2.timeout, c2.headers, RetryConfigArg(c2.retry)))
    /\ ctor = None
    /\ last = None
    /\ last2 = None
    /\ env = None
    /\ llm = None
    /\ completion = None
    /\ prevCompletion = None
    /\ backoff = None

PairGet ==
    /\ \E e \in Endpoints, p1 \in Payloads, p2 \in Payloads :
        /\ last' = Some(Call("GET", e, p1, get(client[1], e, p1)))
        /\ last2' = Some(Call("GET", e, p2, get(client2[1], e, p2)))
    /\ UNCHANGED <<client, ctor, client2, env, llm, completion, prevCompletion, backoff>>

PairPost ==
    /\ \E e \in Endpoints, p1 \in Payloads, p2 \in Payloads :
        /\ last' = Some(Call("POST", e, p1, post(client[1], e, p1)))
        /\ last2' = Some(Call("POST", e, p2, post(client2[1], e, p2)))
    /\ UNCHANGED <<client, ctor, client2, env, llm, completion, prevCompletion, backoff>>

PairPut ==
    /\ \E e \in Endpoints, p1 \in Payloads, p2 \in Payloads :
        /\ last' = Some(Call("PUT", e, p1, put(client[1], e, p1)))
        /\ last2' = Some(Call("PUT", e, p2, put(client2[1], e, p2)))
    /\ UNCHANGED <<client, ctor, client2, env, llm, completion, prevCompletion, backoff>>

PairDelete ==
    /\ \E e \in Endpoints :
        /\ last' = Some(Call("DELETE", e, None, delete(client[1], e)))
        /\ last2' = Some(Call("DELETE", e, None, delete(client2[1], e)))
    /\ UNCHANGED <<client, ctor, client2, env, llm, completion, prevCompletion, backoff>>

NextPair ==
    \/ PairGet
    \/ PairPost
    \/ PairPut
    \/ PairDelete

SpecPair == InitPair /\ [][NextPair]_vars

----------------------------------------------------------------------------
(* Properties of the HTTP client *)

ExpectedStatus(method) ==
    CASE method = "GET"    -> 200
      [] method = "POST"   -> 201
      [] method = "PUT"    -> 200
      [] method = "DELETE" -> 204

ExpectedUsersUrl ==
    <<"h","t","t","p","s",":","/","/","a","p","i",".","e","x","a","m","p","l","e",
      ".","c","o","m","/","u","s","e","r","s">>

\* C2: for a base of "https://api.example.com" plus any number of trailing
\* slashes, every request to "/users" builds exactly
\* "https://api.example.com/users", with no "//" where base and endpoint meet.
C2_UsersUrl ==
    (last # None /\ last[1].endpoint = UsersEndpoint) =>
        /\ last[1].url = ExpectedUsersUrl
        /\ ~OccursAt(<<Slash, Slash>>, last[1].url,
                     Len(last[1].url) - Len(UsersEndpoint))

\* A request to "/users" by a client whose base argument ended in a slash.
C2_Witness ==
    /\ last # None
    /\ last[1].endpoint = UsersEndpoint
    /\ ctor[1].base_url # BaseUrl
    /\ ctor[1].base_url[Len(ctor[1].base_url)] = Slash

\* C7: every RetryConfig held by a client has max_retries > 0 and
\* backoff_factor >= 1.
C7_RetryConfigValid ==
    client # None =>
        /\ client[1].retry_config.max_retries > 0
        /\ client[1].retry_config.backoff_factor >= 1

\* C11: the client retries: a request by a client with max_retries = n
\* (n >= 1) makes exactly the n attempts 0..n-1, the last of which succeeds,
\* and none beyond the n-th.
C11_RetriesUpToMax ==
    (last # None /\ client[1].retry_config.max_retries >= 1) =>
        LET n == client[1].retry_config.max_retries
        IN  /\ last[1].attempts = [ i \in 1..n |-> i - 1 ]
            /\ last[1].response.status_code < 400

\* C8: a client built without a retry_config, or with a RetryConfig built
\* without arguments, holds max_retries = 3 and backoff_factor = 2; every
\* argument that was given to RetryConfig is held unchanged.
C8_RetryDefaults ==
    client # None =>
        LET held == client[1].retry_config
            given == ctor[1].retry
        IN  /\ given = None => held = [ max_retries |-> 3, backoff_factor |-> 2 ]
            /\ given # None =>
                /\ held.max_retries =
                     IF given[1][1] = None THEN 3 ELSE given[1][1][1]
                /\ held.backoff_factor =
                     IF given[1][2] = None THEN 2 ELSE given[1][2][1]

\* A client was built without a retry_config.
C8_Witness ==
    /\ client # None
    /\ ctor[1].retry = None
    /\ client[1].retry_config.max_retries = 3

----------------------------------------------------------------------------
(* examples/llm-wrappers-basic.py *)

LowerCase == <<"a","b","c","d","e","f","g","h","i","j","k","l","m","n","o","p","q","r","s","t","u","v","w","x","y","z">>
UpperCase == <<"A","B","C","D","E","F","G","H","I","J","K","L","M","N","O","P","Q","R","S","T","U","V","W","X","Y","Z">>

\* str.upper(), on the characters of the model's provider names.
UpperChar(c) ==
    IF \E i \in 1..Len(LowerCase) : LowerCase[i] = c
    THEN UpperCase[CHOOSE i \in 1..Len(LowerCase) : LowerCase[i] = c]
    ELSE c

upper(s) == [ i \in 1..Len(s) |-> UpperChar(s[i]) ]

openai == <<"o","p","e","n","a","i">>
OpenAI == <<"O","p","e","n","A","I">>
anthropic == <<"a","n","t","h","r","o","p","i","c">>
test_provider == <<"t","e","s","t","_","p","r","o","v","i","d","e","r">>
Providers == { openai, OpenAI, anthropic, test_provider }

OPENAI_API_KEY == <<"O","P","E","N","A","I","_","A","P","I","_","K","E","Y">>
ANTHROPIC_API_KEY == <<"A","N","T","H","R","O","P","I","C","_","A","P","I","_","K","E","Y">>
EnvVars == { OPENAI_API_KEY, ANTHROPIC_API_KEY }

\* The value a variable can have: unset, set to "", or set to the example key
\* the script gives it.
ExampleKey(v) ==
    IF v = OPENAI_API_KEY THEN "sk-example-key-not-real"
    ELSE "sk-ant-REDACTED"

EnvValues(v) == { None, Some(""), Some(ExampleKey(v)) }

Environments == { e \in [ EnvVars -> { None, Some(""), Some(ExampleKey(OPENAI_API_KEY)),
                                        Some(ExampleKey(ANTHROPIC_API_KEY)) } ] :
                    \A v \in EnvVars : e[v] \in EnvValues(v) }

ApiKeyArgs == { None, Some(""), Some("sk-explicit") }

\* os.getenv(name): None when the variable is unset.
getenv(environ, name) == IF name \in DOMAIN environ THEN environ[name] ELSE None

\* f"{provider.upper()}_API_KEY"
EnvVarName(provider) == upper(provider) \o <<"_","A","P","I","_","K","E","Y">>

\* Python truthiness of an Optional[str]: None and "" are falsy.
Truthy(x) == x # None /\ x[1] # ""

\* a or b
Or(a, b) == IF Truthy(a) THEN a ELSE b

LLMClient_noCheck(provider, api_key, environ) ==
    LET key == Or(api_key, getenv(environ, EnvVarName(provider)))
    IN  [ raised |-> None,
          self   |-> Some([ provider |-> provider, api_key |-> key ]) ]

LLMClient_envFirst(provider, api_key, environ) ==
    LET key == Or(getenv(environ, EnvVarName(provider)), api_key)
    IN  IF ~Truthy(key)
        THEN [ raised |-> Some("ValueError"), self |-> None ]
        ELSE [ raised |-> None,
               self   |-> Some([ provider |-> provider, api_key |-> key ]) ]

\* LLMClient.__init__: the exception it raises, or the client it leaves.
LLMClient(provider, api_key, environ) ==
    LET key == Or(api_key, getenv(environ, EnvVarName(provider)))
    IN  IF ~Truthy(key)
        THEN [ raised |-> Some("ValueError"), self |-> None ]
        ELSE [ raised |-> None,
               self   |-> Some([ provider |-> provider, api_key |-> key ]) ]

DefaultMaxTokens == 100
PromptPrefixLen == 50
MaxTokensArgs == { None, Some(150) }

MaxPromptLen == 51
PromptLens == { 0 } \cup ((MaxPromptLen - 2)..MaxPromptLen)

\* A prompt of n characters: "a" n-1 times, then x.
PromptOf(n, x) == [ i \in 1..n |-> IF i = n THEN x ELSE "a" ]
Prompts == { PromptOf(n, x) : n \in PromptLens, x \in { "a", "b" } }

ResponseOpen == <<"[","R","e","s","p","o","n","s","e"," ","t","o",":"," ">>
ResponseClose == <<".",".",".","]">>
ModelSuffix == <<"-","m","o","d","e","l">>

complete_take51(self, prompt, max_tokens) ==
    [ text        |-> ResponseOpen \o Take(prompt, PromptPrefixLen + 1) \o ResponseClose,
      tokens_used |-> ArgOr(max_tokens, DefaultMaxTokens),
      model       |-> self.provider \o ModelSuffix ]

\* LLMClient.complete
complete(self, prompt, max_tokens) ==
    [ text        |-> ResponseOpen \o Take(prompt, PromptPrefixLen) \o ResponseClose,
      tokens_used |-> ArgOr(max_tokens, DefaultMaxTokens),
      model       |-> self.provider \o ModelSuffix ]

\* os.environ[v] = "..." of the script's start-up, before any client exists.
SetEnv ==
    /\ llm = None
    /\ \E v \in EnvVars :
        env' = [ env EXCEPT ![v] = Some(ExampleKey(v)) ]
    /\ UNCHANGED <<client, ctor, last, client2, last2, llm, completion,
                   prevCompletion, backoff>>

\* client = LLMClient(provider, api_key)
NewLLMClient ==
    /\ \E p \in Providers, k \in ApiKeyArgs :
        llm' = Some([ provider |-> p,
                      api_key  |-> k,
                      result   |-> LLMClient(p, k, env) ])
    /\ completion' = None
    /\ prevCompletion' = None
    /\ UNCHANGED <<client, ctor, last, client2, last2, env, backoff>>

\* response = client.complete(prompt, max_tokens): complete has no raise
\* statement, so every call returns.
CallComplete ==
    /\ llm # None
    /\ llm[1].result.self # None
    /\ \E prompt \in Prompts, m \in MaxTokensArgs :
        completion' = Some([ prompt     |-> prompt,
                             max_tokens |-> m,
                             raised     |-> None,
                             response   |-> Some(complete(llm[1].result.self[1],
                                                          prompt, m)) ])
    /\ prevCompletion' = completion
    /\ UNCHANGED <<client, ctor, last, client2, last2, env, llm, backoff>>

InitLLM ==
    /\ client = None
    /\ ctor = None
    /\ last = None
    /\ client2 = None
    /\ last2 = None
    /\ env \in Environments
    /\ llm = None
    /\ completion = None
    /\ prevCompletion = None
    /\ backoff = None

NextLLM ==
    \/ SetEnv
    \/ NewLLMClient
    \/ CallComplete

SpecLLM == InitLLM /\ [][NextLLM]_vars

----------------------------------------------------------------------------
(* Properties of the LLM client *)

\* C3: a construction with api_key None while the environment has no value
\* for <PROVIDER>_API_KEY raises ValueError and leaves no client; every
\* client that was constructed holds a non-empty api_key.
C3_KeyRequired ==
    llm # None =>
        LET c == llm[1]
        IN  /\ (c.api_key = None /\ getenv(env, EnvVarName(c.provider)) = None) =>
                (c.result.raised = Some("ValueError") /\ c.result.self = None)
            /\ c.result.self # None =>
                /\ c.result.raised = None
                /\ c.result.self[1].api_key # None
                /\ c.result.self[1].api_key # Some("")

\* LLMClient("openai") raised although ANTHROPIC_API_KEY was set.
C3_Witness ==
    /\ llm # None
    /\ llm[1].provider = openai
    /\ llm[1].api_key = None
    /\ env[OPENAI_API_KEY] = None
    /\ env[ANTHROPIC_API_KEY] # None
    /\ llm[1].result.raised = Some("ValueError")

\* The environment variable each provider name stands for, spelled out.
ProviderVar(provider) ==
    CASE provider = openai        -> <<"O","P","E","N","A","I","_","A","P","I","_","K","E","Y">>
      [] provider = OpenAI        -> <<"O","P","E","N","A","I","_","A","P","I","_","K","E","Y">>
      [] provider = anthropic     -> <<"A","N","T","H","R","O","P","I","C","_","A","P","I","_","K","E","Y">>
      [] provider = test_provider -> <<"T","E","S","T","_","P","R","O","V","I","D","E","R","_","A","P","I","_","K","E","Y">>

ProviderEnvValue(provider) ==
    IF ProviderVar(provider) \in EnvVars THEN env[ProviderVar(provider)] ELSE None

\* C4 as stated: an api_key argument that is given (not None) is the key
\* used, whatever the environment holds; only with no argument is the key
\* the value of <PROVIDER>_API_KEY.
C4_ExplicitKeyWins ==
    (llm # None /\ llm[1].result.self # None) =>
        LET c == llm[1]
            key == c.result.self[1].api_key
        IN  /\ c.api_key # None => key = c.api_key
            /\ c.api_key = None => key = ProviderEnvValue(c.provider)

\* C4 as amended: a non-empty api_key argument is the key used, whatever the
\* environment holds; with no argument, or with the empty string as the
\* argument, the key is the value of <PROVIDER>_API_KEY, the variable named
\* by the upper-cased provider, and of no other variable.
C4_NonEmptyExplicitKeyWins ==
    (llm # None /\ llm[1].result.self # None) =>
        LET c == llm[1]
            key == c.result.self[1].api_key
        IN  /\ (c.api_key # None /\ c.api_key # Some("")) => key = c.api_key
            /\ (c.api_key = None \/ c.api_key = Some("")) =>
                key = ProviderEnvValue(c.provider)

\* A client was constructed with a non-empty explicit key while the
\* environment held a different key for its provider.
C4_Witness ==
    /\ llm # None
    /\ llm[1].provider = openai
    /\ llm[1].api_key = Some("sk-explicit")
    /\ env[OPENAI_API_KEY] = Some("sk-example-key-not-real")
    /\ llm[1].result.self # None

\* The first 50 characters of a prompt, one by one.
First50(prompt) ==
    [ i \in 1..(IF Len(prompt) < 50 THEN Len(prompt) ELSE 50) |-> prompt[i] ]

ExpectedText(prompt) ==
    <<"[","R","e","s","p","o","n","s","e"," ","t","o",":"," ">> \o First50(prompt) \o <<".",".",".","]">>

C9_EmptyPromptRaises ==
    (completion # None /\ completion[1].prompt = << >>) =>
        /\ completion[1].raised = Some("ValueError")
        /\ completion[1].response = None

----------------------------------------------------------------------------
(* src/test/integration-utils/test_http_client.py: the backoff delay *)

MaxBaseDelay == 4
MaxBackoffFactor == 4
MaxAttempt == 4

\* x ** n for n >= 0; Python gives x ** 0 = 1 for every x, 0 included.
Pow(x, n) == IF n = 0 THEN 1 ELSE x ^ n

BackoffDelay_swapped(base_delay, backoff_factor, attempt) ==
    base_delay * Pow(attempt, backoff_factor)

\* delay = base_delay * (backoff_factor ** attempt)
BackoffDelay(base_delay, backoff_factor, attempt) ==
    base_delay * Pow(backoff_factor, attempt)

\* The delay of attempt 0 for some base_delay and backoff_factor.
StartBackoff ==
    /\ \E b \in 0..MaxBaseDelay, f \in 0..MaxBackoffFactor :
        backoff' = Some([ base_delay     |-> b,
                          backoff_factor |-> f,
                          attempt        |-> 0,
                          delay          |-> BackoffDelay(b, f, 0) ])
    /\ UNCHANGED <<client, ctor, last, client2, last2, env, llm, completion,
                   prevCompletion>>

\* The delay of the next attempt.
NextAttempt ==
    /\ backoff # None
    /\ backoff[1].attempt < MaxAttempt
    /\ backoff' = Some([ backoff[1] EXCEPT
                            !.attempt = @ + 1,
                            !.delay = BackoffDelay(backoff[1].base_delay,
                                                   backoff[1].backoff_factor,
                                                   backoff[1].attempt + 1) ])
    /\ UNCHANGED <<client, ctor, last, client2, last2, env, llm, completion,
                   prevCompletion>>

InitBackoff ==
    /\ client = None
    /\ ctor = None
    /\ last = None
    /\ client2 = None
    /\ last2 = None
    /\ env = None
    /\ llm = None
    /\ completion = None
    /\ prevCompletion = None
    /\ backoff = None

NextBackoff ==
    \/ StartBackoff
    \/ NextAttempt

SpecBackoff == InitBackoff /\ [][NextBackoff]_vars

\* base_delay multiplied by backoff_factor n times.
RECURSIVE MultipliedTimes(_, _, _)
MultipliedTimes(base_delay, backoff_factor, n) ==
    IF n = 0 THEN base_delay
    ELSE MultipliedTimes(base_delay, backoff_factor, n - 1) * backoff_factor

\* C6: the delay of attempt n is base_delay multiplied by backoff_factor n
\* times: attempt 0 gives base_delay, and base_delay = 1, backoff_factor = 2,
\* attempt = 3 gives 8.
C6_BackoffDelay ==
    backoff # None =>
        LET b == backoff[1]
        IN  /\ b.delay = MultipliedTimes(b.base_delay, b.backoff_factor, b.attempt)
            /\ b.attempt = 0 => b.delay = b.base_delay
            /\ (b.base_delay = 1 /\ b.backoff_factor = 2 /\ b.attempt = 3) =>
                b.delay = 8

\* Each further attempt multiplies the previous delay by backoff_factor.
C6_StepMultiplies ==
    [][(backoff # None /\ backoff' # None
        /\ backoff'[1].attempt = backoff[1].attempt + 1) =>
            backoff'[1].delay = backoff[1].delay * backoff[1].backoff_factor]_vars

\* base_delay = 1, backoff_factor = 2, attempt = 3 was computed.
C6_Witness ==
    /\ backoff # None
    /\ backoff[1].base_delay = 1
    /\ backoff[1].backoff_factor = 2
    /\ backoff[1].attempt = 3
    /\ backoff[1].delay = 8

----------------------------------------------------------------------------
(* A run of either example script: the HTTP script does not touch the      *)
(* environment (env stays None), the LLM script starts from one.           *)

InitEither == InitHttp \/ InitLLM

NextEither ==
    \/ (env = None /\ NextHttp)
    \/ (env # None /\ NextLLM)

SpecEither == InitEither /\ [][NextEither]_vars

\* C12: no request changes the client. A step that returns an HTTP response
\* leaves the client, and the arguments it was constructed from, as they
\* were, and repeats the previous response when method and endpoint are the
\* same; a step that returns a completion leaves the LLM client and the
\* environment as they were, leaves the completion returned before it
\* unaltered, and repeats it when prompt and max_tokens are the same.
C12_NoStateChange ==
    [][ /\ last' # None =>
            /\ client' = client
            /\ ctor' = ctor
            /\ (/\ last # None
                /\ last'[1].method = last[1].method
                /\ last'[1].endpoint = last[1].endpoint) =>
                    last'[1].response = last[1].response
        /\ completion' # None =>
            /\ llm' = llm
            /\ env' = env
            /\ prevCompletion' = completion
            /\ (/\ completion # None
                /\ completion'[1].prompt = completion[1].prompt
                /\ completion'[1].max_tokens = completion[1].max_tokens) =>
                    completion'[1].response = completion[1].response
      ]_vars

\* The same completion was requested twice in a row from one client, and
\* the client still holds the provider and key it was constructed with.
C12_Witness ==
    /\ completion # None
    /\ prevCompletion # None
    /\ completion[1].prompt = prevCompletion[1].prompt
    /\ completion[1].max_tokens = prevCompletion[1].max_tokens
    /\ completion[1].response = prevCompletion[1].response
    /\ llm[1].result.self[1].provider = llm[1].provider
    /\ llm[1].api_key = Some("sk-explicit")
    /\ llm[1].result.self[1].api_key = Some("sk-explicit")

====
